---- MODULE Spec2Model ----
(***************************************************************************)
(* Model of the OCR service: the model artifact lifecycle manager          *)
(* (app/model_store.py), the API process lifespan and the OCR request      *)
(* pipeline with its error mapping (main.py), the settings (app/config.py) *)
(* and the backend launcher (app/vllm_local_server.py).                    *)
(***************************************************************************)
EXTENDS Integers, Sequences, FiniteSets, TLC

VARIABLES
    settings,   \* the Settings snapshot of the process (config.py:57-212)
    fs,         \* the model store on disk: root, marker, artifact directory, files
    api,        \* position of the API process in lifespan (main.py:25-77)
    calls,      \* the calls of ensure_model_store made so far
    client,     \* the VLLMClient of lifespan: none, open, ready (checked), closed
    reqs,       \* in-flight requests, one record per connection slot
    sent,       \* the response the latest step sent, with the request it answers
    launcher    \* the backend launcher: its position, os.environ, the env it hands over

vars == <<settings, fs, api, calls, client, reqs, sent, launcher>>

None == "None"

----------------------------------------------------------------------------
(* Bounds of the model. *)

\* connection slots: requests in flight at the same time
MaxInFlight == 2

\* calls of ensure_model_store made one after the other on one store
MaxCalls == 2

\* files a store can hold: one that is the model file, one that is not
Files == {"model.bin", "README.md"}

\* values of OCR_MODEL_FILENAME after normalize_model_filename
ModelFilenames == {None, "model.bin"}

\* config.py:76: the default of model_repo_id
DefaultRepoId == "allenai/olmOCR-2-7B-1025-FP8"

\* values of OCR_MODEL_REPO_ID, a str without validator (config.py:76): the
\* default and the empty string
RepoIds == {DefaultRepoId, ""}

----------------------------------------------------------------------------
(* Configuration (config.py). *)

\* config.py:210-212
max_upload_bytes(s) == s.max_upload_megabytes * 1024 * 1024

\* config.py:104: the default of max_upload_megabytes
DefaultUploadMegabytes == 15

\* OCR_MAX_UPLOAD_MEGABYTES is an int without validator (config.py:104)
UploadMegabytes == {-1, 0, DefaultUploadMegabytes}

\* config.py:84, 85, 88, 102: the defaults of the timeouts and of the port
DefaultVllmTimeoutSeconds == 120
DefaultVllmStartupTimeoutSeconds == 600
DefaultVllmPort == 8001
DefaultInferenceTimeoutSeconds == 90

\* values of hf_token after normalize_hf_token: None, or a token
HfTokens == {None, "hf_configured", "hf_parent"}

SettingsSpace ==
    [ require_local_model_store : BOOLEAN,
      auto_download_model_store : BOOLEAN,
      model_force_download      : BOOLEAN,
      model_filename            : ModelFilenames,
      model_repo_id             : RepoIds,
      hf_token                  : HfTokens,
      max_upload_megabytes      : UploadMegabytes,
      vllm_timeout_seconds         : {DefaultVllmTimeoutSeconds},
      vllm_startup_timeout_seconds : {DefaultVllmStartupTimeoutSeconds},
      vllm_port                    : {DefaultVllmPort},
      inference_timeout_seconds    : {DefaultInferenceTimeoutSeconds} ]

\* config.py:73-77: the defaults of the store flags, of the repository id and
\* of the filename
DefaultStoreSettings(s) ==
    /\ s.require_local_model_store
    /\ ~s.auto_download_model_store
    /\ ~s.model_force_download
    /\ s.model_repo_id = DefaultRepoId
    /\ s.model_filename = None

\* The configurations a process starts with. ensure_model_store reads no upload
\* ceiling and the OCR handler reads no store setting, so the two are varied in
\* turn: every ceiling under the default store settings, and every store
\* setting under the ceiling of 0 megabytes (where a request ends at a gate).
\* The empty repository id is taken without filename pattern: no pattern of
\* ModelFilenames matches the marker. No token is configured: neither reads
\* hf_token.
StartSettings ==
    { s \in SettingsSpace :
        /\ s.hf_token = None
        /\ \/ DefaultStoreSettings(s)
           \/ /\ s.max_upload_megabytes = 0
              /\ s.model_repo_id = DefaultRepoId \/ s.model_filename = None }

\* the environment of a process: OCR_INFERENCE_TIMEOUT_SECONDS,
\* OCR_VLLM_TIMEOUT_SECONDS, OCR_VLLM_STARTUP_TIMEOUT_SECONDS and OCR_VLLM_PORT
\* at their defaults, or out of range
EnvSpace ==
    [ inference_timeout_seconds    : {0, DefaultInferenceTimeoutSeconds},
      vllm_timeout_seconds         : {-1, DefaultVllmTimeoutSeconds},
      vllm_startup_timeout_seconds : {0, DefaultVllmStartupTimeoutSeconds},
      vllm_port                    : {0, DefaultVllmPort, 65536} ]

\* config.py:148-153: the value, or a ValueError
validate_vllm_port(value) ==
    [ raised |-> value < 1 \/ value > 65535, value |-> value ]

\* no Settings object: get_settings was not called, or Settings() raised
Unset == [ loaded |-> FALSE ]

\* what Settings() raises when a validator raised
ValidationError == [ error |-> "ValidationError" ]

\* config.py:66-104: every field at its default
DefaultSettings ==
    CHOOSE s \in SettingsSpace :
        /\ DefaultStoreSettings(s)
        /\ s.hf_token = None
        /\ s.max_upload_megabytes = DefaultUploadMegabytes

\* config.py:57-212: Settings() under an environment: the fields are read and
\* the field validators run; the three timeouts have none
Settings(env) ==
    IF validate_vllm_port(env.vllm_port).raised THEN ValidationError
    ELSE [DefaultSettings EXCEPT
            !.inference_timeout_seconds = env.inference_timeout_seconds,
            !.vllm_timeout_seconds = env.vllm_timeout_seconds,
            !.vllm_startup_timeout_seconds = env.vllm_startup_timeout_seconds,
            !.vllm_port = validate_vllm_port(env.vllm_port).value]

\* the credential variables of a process environment, each unset (None), blank
\* or holding a token; the tokens hold no surrounding whitespace
EnvironSpace ==
    [ OCR_HF_TOKEN           : {None, "", "hf_configured"},
      HF_TOKEN               : {None, "hf_parent"},
      HUGGING_FACE_HUB_TOKEN : {None, "hf_parent"} ]

\* an environment without credential variables
NoEnviron ==
    [ OCR_HF_TOKEN |-> None, HF_TOKEN |-> None, HUGGING_FACE_HUB_TOKEN |-> None ]

\* config.py:192-200: the stripped value when it is not blank, else the
\* stripped HF_TOKEN of the environment when it is not blank, else None
normalize_hf_token(value, environ) ==
    IF value # None /\ value # "" THEN value
    ELSE IF environ.HF_TOKEN # None /\ environ.HF_TOKEN # "" THEN environ.HF_TOKEN
    ELSE None

\* config.py:78, 192: hf_token of Settings() under an environment: the default
\* None when OCR_HF_TOKEN is unset (the validator runs on a value that was
\* given), else the value normalized
hf_token(environ) ==
    IF environ.OCR_HF_TOKEN = None THEN None
    ELSE normalize_hf_token(environ.OCR_HF_TOKEN, environ)

----------------------------------------------------------------------------
(* The model store on disk (model_store.py). *)

\* root: <store_root> exists; marker: <store_root>/.model_store_ready exists;
\* repo: the directory <store_root>/<default repository id, escaped> exists;
\* files: the files under <store_root> other than the marker, which lie in that
\* directory on a store no call has touched yet
FsSpace ==
    { f \in [ root : BOOLEAN, marker : BOOLEAN, repo : BOOLEAN, files : SUBSET Files ] :
        /\ f.marker => f.root
        /\ f.repo => f.root
        /\ f.files # {} => f.repo }

\* model_store.py:211: the name of the readiness marker
MarkerName == ".model_store_ready"

\* model_store.py:116: model_repo_id.replace("/", "--")
escaped(repo_id) ==
    IF repo_id = DefaultRepoId THEN "allenai--olmOCR-2-7B-1025-FP8" ELSE repo_id

\* model_store.py:114-116: the artifact directory model_store_dir / <escaped
\* id>, as the store holds it: whether it exists and the files under it, at any
\* depth. Joining the empty name gives model_store_dir itself, which holds the
\* marker.
resolve_repo_dir(s, f) ==
    IF escaped(s.model_repo_id) = ""
    THEN [ exists |-> f.root,
           files |-> f.files \cup (IF f.marker THEN {MarkerName} ELSE {}) ]
    ELSE [ exists |-> f.repo, files |-> f.files ]

\* model_store.py:184-201: the first file matching the pattern, None without one.
\* The patterns of ModelFilenames hold no wildcard: a file of that name under
\* the directory is found by the direct lookup or by rglob.
_find_model_file(repo_dir, filename_pattern) ==
    IF ~repo_dir.exists THEN None
    ELSE IF filename_pattern \in repo_dir.files THEN filename_pattern
    ELSE None

\* the artifact check looking at the directory only
_has_expected_artifacts_dir_only(repo_dir, model_filename) == repo_dir.exists

\* model_store.py:174-181
_has_expected_artifacts(repo_dir, model_filename) ==
    IF ~repo_dir.exists THEN FALSE
    ELSE IF model_filename # None THEN _find_model_file(repo_dir, model_filename) # None
    ELSE repo_dir.files # {}

\* model_store.py:25-26, 42
has_expected(s, f) ==
    _has_expected_artifacts(resolve_repo_dir(s, f), s.model_filename)

\* the marker write without its except clause: the OSError of touch gets out
_write_bootstrap_marker_unguarded(f, touchOk) ==
    IF touchOk THEN [ fs |-> [f EXCEPT !.marker = TRUE], raised |-> FALSE ]
    ELSE [ fs |-> f, raised |-> TRUE ]

\* model_store.py:210-218: touch the marker; an OSError is logged and swallowed.
\* The store afterwards and whether the call raised.
_write_bootstrap_marker(f, touchOk) ==
    IF touchOk THEN [ fs |-> [f EXCEPT !.marker = TRUE], raised |-> FALSE ]
    ELSE [ fs |-> f, raised |-> FALSE ]

\* what snapshot_download can do: the registry client is missing, or it writes
\* some files and then raises or returns
NetSpace ==
    { n \in [ kind : {"import_error", "raises", "returns"}, added : SUBSET Files ] :
        n.kind = "import_error" => n.added = {} }

\* the fetch swallowing the failure of snapshot_download
_download_model_snapshot_swallowing(s, f, net) ==
    IF net.kind = "import_error"
    THEN [ fs |-> f, raised |-> TRUE, cause |-> "ImportError" ]
    ELSE [ fs |-> [f EXCEPT !.root = TRUE,
                            !.repo = f.repo \/ escaped(s.model_repo_id) # "",
                            !.files = f.files \cup net.added],
           raised |-> FALSE, cause |-> None ]

\* model_store.py:119-171: the store after the fetch, whether it raised, and
\* the exception its RuntimeError was raised from: the ImportError of the
\* registry client (120-126) or the exception of snapshot_download (156-162)
_download_model_snapshot(s, f, net) ==
    IF net.kind = "import_error"
    THEN [ fs |-> f, raised |-> TRUE, cause |-> "ImportError" ]
    ELSE [ fs |-> [f EXCEPT !.root = TRUE,
                            !.repo = f.repo \/ escaped(s.model_repo_id) # "",
                            !.files = f.files \cup net.added],
           raised |-> net.kind = "raises",
           cause |-> IF net.kind = "raises" THEN "Exception" ELSE None ]

\* the no-op check left out
should_bootstrap_always(s) == TRUE

\* model_store.py:14-18
should_bootstrap(s) ==
    \/ s.require_local_model_store
    \/ s.auto_download_model_store
    \/ s.model_force_download

\* the cache hit with the negation of force-refresh dropped
cache_hit_negation_dropped(s, f) ==
    has_expected(s, f) /\ s.model_force_download

\* the cache hit never taken
cache_hit_never(s, f) == FALSE

\* model_store.py:27: the cache hit
cache_hit(s, f) ==
    has_expected(s, f) /\ ~s.model_force_download

\* the download decision without force-refresh
should_download_auto_only(s) == s.auto_download_model_store

\* the download decision ignoring both flags
should_download_always(s) == TRUE

\* the download decision without auto-download
should_download_force_only(s) == s.model_force_download

\* model_store.py:31
should_download(s) == s.model_force_download \/ s.auto_download_model_store

\* the check after the fetch left out
artifacts_missing_never(s, f) == FALSE

\* the check after the fetch ignoring the filename pattern
artifacts_missing_ignores_pattern(s, f) == ~_has_expected_artifacts(resolve_repo_dir(s, f), None)

\* model_store.py:42-45: the check after the fetch
artifacts_missing_after_fetch(s, f) == ~has_expected(s, f)

\* what one call did. fetch: how _download_model_snapshot went ("not_called"
\* when it was not called); cause: the exception a RuntimeError was raised from
Outcome(f, kind, fetched, marked) ==
    [ fs |-> f, kind |-> kind, fetched |-> fetched, marked |-> marked,
      fetch |-> "not_called", cause |-> None ]

\* model_store.py:28-29, 47-49: the marker is written and the path returned
MarkedAndReturned(m, fetched) ==
    Outcome(m.fs, IF m.raised THEN "error" ELSE "path", fetched, TRUE)

\* model_store.py:12-48: kind is "path" (the store path is returned), "none"
\* (None is returned) or "error" (RuntimeError); fetched: _download_model_snapshot
\* was called; marked: _write_bootstrap_marker was called
ensure_model_store(s, f, net, touchOk) ==
    IF ~should_bootstrap(s) THEN Outcome(f, "none", FALSE, FALSE)
    ELSE LET f1 == [f EXCEPT !.root = TRUE] IN
      IF cache_hit(s, f1)
      THEN MarkedAndReturned(_write_bootstrap_marker(f1, touchOk), FALSE)
      ELSE IF ~should_download(s)
      THEN IF s.require_local_model_store
           THEN Outcome(f1, "error", FALSE, FALSE)
           ELSE Outcome(f1, "none", FALSE, FALSE)
      ELSE LET d == _download_model_snapshot(s, f1, net) IN
        IF d.raised
        THEN [Outcome(d.fs, "error", TRUE, FALSE)
                EXCEPT !.fetch = net.kind, !.cause = d.cause]
        ELSE IF artifacts_missing_after_fetch(s, d.fs)
        THEN [Outcome(d.fs, "error", TRUE, FALSE) EXCEPT !.fetch = net.kind]
        ELSE [MarkedAndReturned(_write_bootstrap_marker(d.fs, touchOk), TRUE)
                EXCEPT !.fetch = net.kind]

----------------------------------------------------------------------------
(* Calls of ensure_model_store, in the order they are made. *)

\* one call: who made it, the settings it was given, whether the expected
\* artifacts were there before it, and what it did
Call(caller, s, f, o) ==
    [ caller |-> caller, settings |-> s,
      had |-> has_expected(s, f),
      kind |-> o.kind, fetched |-> o.fetched, marked |-> o.marked,
      fetch |-> o.fetch, cause |-> o.cause ]

\* the calls before the latest: the history keeps whether a call fetched, and
\* how the fetch went for the latest call only
Earlier(cs) ==
    [ i \in 1 .. Len(cs) |->
        [cs[i] EXCEPT !.fetch = IF cs[i].fetched THEN "called" ELSE "not_called",
                      !.cause = None] ]

----------------------------------------------------------------------------
(* The OCR endpoint and its error mapping (main.py:87-334). *)

\* app.image_processing.ALLOWED_CONTENT_TYPES: the allow-list of the content-type gate
ALLOWED_CONTENT_TYPES == {"image/jpeg", "image/png"}

\* declared content types of an upload; None: the part declares none
ContentTypes == {"image/jpeg", "application/pdf", None}

\* values of the inbound x-request-id header; None: the header is absent
Headers == {None, "client-id"}

\* payload lengths: empty, one byte, exactly the ceiling, one byte more
PayloadLengths(s) ==
    {0, 1} \cup { n \in {max_upload_bytes(s), max_upload_bytes(s) + 1} : n >= 0 }

\* how the read and the encode step of one request go
ReadEvents == {"ok", "read_raises", "encode_raises"}

\* how the call of run_ocr under asyncio.wait_for ends: a text, the deadline of
\* wait_for, the gateway's VLLMTimeoutError, its VLLMError, another exception, or
\* a reply the response shaping fails on
BackendEvents == {"text", "deadline", "vllm_timeout", "vllm_error", "exception", "bad_reply"}

\* request ids: an inbound header's value, or the n-th uuid4() of a request
FromHeader(h) == [ src |-> "header", value |-> h, slot |-> 0, n |-> 0 ]
uuid4(r, n) == [ src |-> "uuid4", value |-> "", slot |-> r, n |-> n ]
Absent == [ src |-> "absent", value |-> "", slot |-> 0, n |-> 0 ]

\* main.py:89: request.headers.get("x-request-id", str(uuid4()))
middleware_request_id(r, hdr) == IF hdr # None THEN FromHeader(hdr) ELSE uuid4(r, 1)

\* the handlers naming the response themselves, not reading request.state
state_request_id_fresh(r, req) == uuid4(r, 2)

\* main.py:264, 289, 314: getattr(request.state, "request_id", str(uuid4()))
state_request_id(r, req) ==
    IF req.request_id # Absent THEN req.request_id ELSE uuid4(r, 2)

Response(status, error_code, request_id) ==
    [ status |-> status, error_code |-> error_code,
      body_request_id |-> request_id, header_request_id |-> Absent ]

\* no response was sent by the latest step
NoResponse ==
    [ slot |-> 0, hdr |-> None, content_type |-> None, len |-> -1, read |-> FALSE,
      transcribes |-> 0, request_id |-> Absent, event |-> "none",
      response |-> Response(0, None, Absent) ]

\* the handler answering an APIError with its status alone
api_error_handler_status_only(r, req, exc) ==
    Response(exc.status_code, "http_error", state_request_id(r, req))

\* main.py:262-284
api_error_handler(r, req, exc) ==
    Response(exc.status_code, exc.error_code, state_request_id(r, req))

\* main.py:287-309
validation_error_handler(r, req) ==
    Response(422, "validation_error", state_request_id(r, req))

\* main.py:312-334
generic_error_handler(r, req) ==
    Response(500, "internal_server_error", state_request_id(r, req))

\* main.py:254-259: the OCRResponse of the success path
ocr_response(req) == Response(200, None, req.request_id)

\* main.py:110-124: call_next returned a response: the middleware sets the header
middleware_return(req, response) ==
    [response EXCEPT !.header_request_id = req.request_id]

\* main.py:95-108: call_next raised: the middleware logs and re-raises, and the
\* response of the handler registered for Exception is sent as it is
middleware_reraise(req, response) == response

APIError(status_code, error_code) ==
    [ kind |-> "APIError", status_code |-> status_code, error_code |-> error_code ]
RequestValidationError == [ kind |-> "RequestValidationError", status_code |-> 0, error_code |-> None ]
Unhandled == [ kind |-> "Exception", status_code |-> 0, error_code |-> None ]
Returned == [ kind |-> "return", status_code |-> 0, error_code |-> None ]

\* the response of one request: what the route returned or raised, through the
\* exception handlers (main.py:262, 287, 312) and the middleware (main.py:87-124)
respond(r, req, result) ==
    IF result.kind = "return" THEN middleware_return(req, ocr_response(req))
    ELSE IF result.kind = "APIError"
    THEN middleware_return(req, api_error_handler(r, req, result))
    ELSE IF result.kind = "RequestValidationError"
    THEN middleware_return(req, validation_error_handler(r, req))
    ELSE middleware_reraise(req, generic_error_handler(r, req))

\* the gate letting an upload without declared content type through
content_type_gate_none_passes(content_type) ==
    IF content_type # None /\ content_type \notin ALLOWED_CONTENT_TYPES
    THEN APIError(415, "unsupported_media_type")
    ELSE Returned

\* main.py:151-156: the content-type gate
content_type_gate(content_type) ==
    IF content_type \notin ALLOWED_CONTENT_TYPES
    THEN APIError(415, "unsupported_media_type")
    ELSE Returned

\* the gates without the size gate
payload_gates_no_size_gate(s, len) ==
    IF len = 0 THEN APIError(400, "empty_file") ELSE Returned

\* the size gate before the non-empty gate
payload_gates_size_first(s, len) ==
    IF len > max_upload_bytes(s) THEN APIError(413, "file_too_large")
    ELSE IF len = 0 THEN APIError(400, "empty_file")
    ELSE Returned

\* main.py:161-169: the non-empty gate, then the size gate
payload_gates(s, len) ==
    IF len = 0 THEN APIError(400, "empty_file")
    ELSE IF len > max_upload_bytes(s) THEN APIError(413, "file_too_large")
    ELSE Returned

\* the except clauses in the other order: VLLMError first, which catches the
\* gateway's timeout as a backend failure
invoke_result_timeout_as_failure(event) ==
    IF event = "deadline"
    THEN APIError(408, "inference_timeout")
    ELSE IF event \in {"vllm_timeout", "vllm_error", "exception"}
    THEN APIError(503, "inference_failure")
    ELSE IF event = "bad_reply" THEN Unhandled
    ELSE Returned

\* the handler without its last except clause
invoke_result_no_catch_all(event) ==
    IF event \in {"deadline", "vllm_timeout"}
    THEN APIError(408, "inference_timeout")
    ELSE IF event = "vllm_error"
    THEN APIError(503, "inference_failure")
    ELSE IF event \in {"exception", "bad_reply"}
    THEN Unhandled
    ELSE Returned

\* main.py:189-259: the end of the bounded invoke and the response shaping
invoke_result(event) ==
    IF event \in {"deadline", "vllm_timeout"} THEN APIError(408, "inference_timeout")
    ELSE IF event = "vllm_error" THEN APIError(503, "inference_failure")
    ELSE IF event = "exception" THEN APIError(503, "inference_failure")
    ELSE IF event = "bad_reply" THEN Unhandled
    ELSE Returned

Sent(r, req, event, result) ==
    [ slot |-> r, hdr |-> req.hdr, content_type |-> req.content_type,
      len |-> req.len, read |-> req.read, transcribes |-> req.transcribes,
      request_id |-> req.request_id, event |-> event,
      response |-> respond(r, req, result) ]

\* main.py:171-182: the log record "OCR request accepted" with the file size;
\* no response is sent yet
Accepted(r, req) ==
    [ slot |-> r, hdr |-> req.hdr, content_type |-> req.content_type,
      len |-> req.len, read |-> req.read, transcribes |-> req.transcribes,
      request_id |-> req.request_id, event |-> "accepted",
      response |-> Response(0, None, Absent) ]

\* main.py:184-193: the payload is encoded and handed to run_ocr; the handler
\* does not read it again
Invoking(req) == [req EXCEPT !.pc = "invoke", !.len = -1, !.transcribes = 1]

NewReq(r, hdr, content_type) ==
    [ pc |-> "read", hdr |-> hdr, request_id |-> middleware_request_id(r, hdr),
      content_type |-> content_type, len |-> -1, read |-> FALSE, transcribes |-> 0 ]

----------------------------------------------------------------------------
(* The API process (main.py). *)

Reqs == 1 .. MaxInFlight

IdleReq == [ pc |-> "idle" ]

\* created: the VLLMClient objects constructed so far; closes: the calls of
\* close so far
NoClient == [ state |-> "none", closes |-> 0, created |-> 0 ]

\* main.py:39: vllm_client = VLLMClient(settings)
VLLMClient(c) == [c EXCEPT !.state = "open", !.created = c.created + 1]

\* main.py:43, 77: await vllm_client.close()
close(c) == [c EXCEPT !.state = "closed", !.closes = c.closes + 1]

\* the except clause of startup_check without the close
on_startup_check_failed_leaking(c) == c

\* main.py:42-43: startup_check raised: the client is closed before lifespan
\* raises
on_startup_check_failed(c) == close(c)

\* lifespan swallowing the exception of ensure_model_store
after_ensure_swallowed(kind) == "probing"

\* main.py:28: an exception of ensure_model_store ends lifespan before line 39
after_ensure(kind) == IF kind = "error" THEN "failed" ELSE "probing"

\* main.py:26-39: lifespan up to its first await: ensure_model_store, then the
\* VLLMClient is created
LifespanEnsure ==
    /\ api = "init"
    /\ \E net \in NetSpace, touchOk \in BOOLEAN :
         LET o == ensure_model_store(settings, fs, net, touchOk) IN
           /\ fs' = o.fs
           /\ calls' = Append(Earlier(calls), Call("api", settings, fs, o))
           /\ api' = after_ensure(o.kind)
           /\ client' = IF after_ensure(o.kind) = "probing"
                        THEN VLLMClient(client)
                        ELSE client
    /\ sent' = NoResponse
    /\ UNCHANGED <<settings, reqs, launcher>>

\* main.py:40-61: startup_check raised: lifespan raises; it returned: the
\* application state is populated and requests are served
after_startup_check(ok) == IF ok THEN "serving" ELSE "failed"

\* main.py:41-71: startup_check returns, or raises and the client is closed
LifespanStartupCheck ==
    /\ api = "probing"
    /\ \E ok \in BOOLEAN :
         /\ api' = after_startup_check(ok)
         /\ client' = IF ok THEN [client EXCEPT !.state = "ready"]
                      ELSE on_startup_check_failed(client)
    /\ sent' = NoResponse
    /\ UNCHANGED <<settings, fs, calls, reqs, launcher>>

\* main.py:73-77: shutdown, once the server has drained its connections
LifespanShutdown ==
    /\ api = "serving"
    /\ \A r \in Reqs : reqs[r].pc = "idle"
    /\ api' = "stopped"
    /\ client' = close(client)
    /\ sent' = NoResponse
    /\ UNCHANGED <<settings, fs, calls, reqs, launcher>>

----------------------------------------------------------------------------
(* The steps of one request (main.py:87-259). *)

\* main.py:88-94, 145-156: a request arrives; the middleware names it, the route
\* validates the form and the handler runs to its first await (file.read). The
\* length of the body is drawn when the body is read, and on the path that
\* never reads it when the response is sent.
ReqReceive(r) ==
    /\ api = "serving"
    /\ reqs[r].pc = "idle"
    /\ \E hdr \in Headers, has_file \in BOOLEAN, content_type \in ContentTypes :
         LET req == NewReq(r, hdr, content_type)
             gate == content_type_gate(content_type)
         IN IF ~has_file
            THEN /\ content_type = None
                 /\ sent' = Sent(r, req, "no_file", RequestValidationError)
                 /\ reqs' = reqs
            ELSE IF gate.kind # "return"
            THEN /\ \E len \in PayloadLengths(settings) :
                      sent' = Sent(r, [req EXCEPT !.len = len], "disallowed", gate)
                 /\ reqs' = reqs
            ELSE /\ reqs' = [reqs EXCEPT ![r] = req]
                 /\ sent' = NoResponse
    /\ UNCHANGED <<settings, fs, api, calls, client, launcher>>

\* main.py:158-193: file.read returns or raises; the gates, the encoding, and
\* the call of run_ocr under wait_for
ReqRead(r) ==
    /\ reqs[r].pc = "read"
    /\ \E event \in ReadEvents, len \in PayloadLengths(settings) :
         LET req == [reqs[r] EXCEPT !.read = TRUE,
                                    !.len = IF event = "read_raises" THEN -1 ELSE len]
             gates == payload_gates(settings, len)
         IN IF event = "read_raises"
            THEN /\ sent' = Sent(r, req, event, Unhandled)
                 /\ reqs' = [reqs EXCEPT ![r] = IdleReq]
            ELSE IF gates.kind # "return"
            THEN /\ event = "ok"
                 /\ sent' = Sent(r, req, "gate", gates)
                 /\ reqs' = [reqs EXCEPT ![r] = IdleReq]
            ELSE IF event = "encode_raises"
            THEN /\ sent' = Sent(r, req, event, Unhandled)
                 /\ reqs' = [reqs EXCEPT ![r] = IdleReq]
            ELSE /\ reqs' = [reqs EXCEPT ![r] = Invoking(req)]
                 /\ sent' = Accepted(r, req)
    /\ UNCHANGED <<settings, fs, api, calls, client, launcher>>

\* main.py:190-193: how the call of run_ocr can end under wait_for with the
\* configured deadline: a deadline that is not positive expires at once
invoke_events(s) ==
    IF s.inference_timeout_seconds <= 0 THEN {"deadline"} ELSE BackendEvents

\* one deadline shared by the handlers: its expiry ends every backend call
after_invoke_shared_deadline(rs, r, event) ==
    IF event = "deadline"
    THEN [ q \in Reqs |-> IF rs[q].pc = "invoke" THEN IdleReq ELSE rs[q] ]
    ELSE [rs EXCEPT ![r] = IdleReq]

\* main.py:190-193: wait_for wraps the call of this handler alone; the handler
\* ends and the other handlers remain where they are
after_invoke(rs, r, event) == [rs EXCEPT ![r] = IdleReq]

\* main.py:189-259: the backend call ends; the handler maps it and returns
ReqInvoke(r) ==
    /\ reqs[r].pc = "invoke"
    /\ \E event \in invoke_events(settings) :
         /\ sent' = Sent(r, reqs[r], event, invoke_result(event))
         /\ reqs' = after_invoke(reqs, r, event)
    /\ UNCHANGED <<settings, fs, api, calls, client, launcher>>

\* no launcher process
NoLauncher == [ pc |-> "none", environ |-> NoEnviron, env |-> None ]

Init ==
    /\ settings \in StartSettings
    /\ fs \in FsSpace
    /\ api = "init"
    /\ calls = <<>>
    /\ client = NoClient
    /\ reqs = [r \in Reqs |-> IdleReq]
    /\ sent = NoResponse
    /\ launcher = NoLauncher

Next ==
    \/ LifespanEnsure
    \/ LifespanStartupCheck
    \/ LifespanShutdown
    \/ \E r \in Reqs : ReqReceive(r)
    \/ \E r \in Reqs : ReqRead(r)
    \/ \E r \in Reqs : ReqInvoke(r)

\* the API process: startup, requests, shutdown
Spec == Init /\ [][Next]_vars

\* main.py:158, 190-193: a handler suspended at an await is resumed by the event
\* loop: file.read ends, and the call of run_ocr ends or wait_for cuts it off at
\* settings.inference_timeout_seconds
Resumed == \A r \in Reqs : WF_vars(ReqRead(r)) /\ WF_vars(ReqInvoke(r))

\* a process under the default settings on a store that was provisioned: the
\* request pipeline reads neither the store nor the store settings
InitProvisioned ==
    /\ Init
    /\ DefaultStoreSettings(settings)
    /\ settings.max_upload_megabytes = DefaultUploadMegabytes
    /\ fs.marker /\ fs.files # {}

\* the API process whose suspended handlers are resumed
SpecLive == InitProvisioned /\ [][Next]_vars /\ Resumed

----------------------------------------------------------------------------
(* The API process from the import of main.py, under an environment. *)

\* main.py:22: settings = get_settings(): Settings() is constructed from the
\* environment; a ValidationError ends the import
GetSettings ==
    /\ api = "import"
    /\ \E env \in EnvSpace :
         IF Settings(env) = ValidationError
         THEN api' = "failed" /\ settings' = settings
         ELSE api' = "init" /\ settings' = Settings(env)
    /\ sent' = NoResponse
    /\ UNCHANGED <<fs, calls, client, reqs, launcher>>

\* before main.py is imported, on a store that was provisioned
InitConfig ==
    /\ settings = Unset
    /\ fs = [ root |-> TRUE, marker |-> TRUE, repo |-> TRUE, files |-> Files ]
    /\ api = "import"
    /\ calls = <<>>
    /\ client = NoClient
    /\ reqs = [r \in Reqs |-> IdleReq]
    /\ sent = NoResponse
    /\ launcher = NoLauncher

NextConfig ==
    \/ GetSettings
    \/ Next

SpecConfig == InitConfig /\ [][NextConfig]_vars

----------------------------------------------------------------------------
(* The store under several calls of ensure_model_store, one after the other. *)

\* model_store.py:12-48: a process calls ensure_model_store with its settings
EnsureModelStore ==
    /\ Len(calls) < MaxCalls
    /\ \E net \in NetSpace, touchOk \in BOOLEAN :
         LET o == ensure_model_store(settings, fs, net, touchOk) IN
           /\ fs' = o.fs
           /\ calls' = Append(Earlier(calls), Call("process", settings, fs, o))
    /\ UNCHANGED <<settings, api, client, reqs, sent, launcher>>

\* bootstrap_model_store.py:30-36: the settings of the bootstrap command
bootstrap_settings(s, force) ==
    [s EXCEPT !.require_local_model_store = TRUE,
              !.auto_download_model_store = TRUE,
              !.model_force_download = force]

\* bootstrap_model_store.py:25-47: the bootstrap command, with or without --force
BootstrapMain ==
    /\ Len(calls) < MaxCalls
    /\ \E force \in BOOLEAN, net \in NetSpace, touchOk \in BOOLEAN :
         LET s == bootstrap_settings(settings, force)
             o == ensure_model_store(s, fs, net, touchOk)
         IN /\ fs' = o.fs
            /\ calls' = Append(Earlier(calls), Call("bootstrap", s, fs, o))
    /\ UNCHANGED <<settings, api, client, reqs, sent, launcher>>

NextStore ==
    \/ EnsureModelStore
    \/ BootstrapMain

SpecStore == Init /\ [][NextStore]_vars

----------------------------------------------------------------------------
(* The store under calls of validate_model_store, the validator older startup
   code imports. *)

\* the values of the keyword arguments require_non_empty and allow_empty
OptionalBool == {None, "True", "False"}

\* model_store.py:71-73: require_non_empty as given, else the negation of
\* allow_empty, else True
require_non_empty_in_effect(require_non_empty, allow_empty) ==
    IF require_non_empty # None THEN require_non_empty = "True"
    ELSE IF allow_empty # None THEN ~(allow_empty = "True")
    ELSE TRUE

\* model_store.py:204-207: a file at any depth under the store root; rglob("*")
\* yields the marker too
_model_store_has_files(f) ==
    f.root /\ (f.files # {} \/ f.marker)

\* model_store.py:51-111: kind is "path" (a path is returned) or "error" (the
\* RuntimeError of ensure_model_store or of the emptiness check); ensured: what
\* the call of ensure_model_store did
validate_model_store(s, f, require_non_empty, net, touchOk) ==
    LET o == ensure_model_store(s, f, net, touchOk) IN
    IF o.kind = "error" THEN [ fs |-> o.fs, kind |-> "error", ensured |-> o ]
    ELSE LET resolved == [o.fs EXCEPT !.root = TRUE] IN
      IF o.kind = "path"
      THEN [ fs |-> resolved, kind |-> "path", ensured |-> o ]
      ELSE IF require_non_empty /\ ~_model_store_has_files(resolved)
      THEN [ fs |-> resolved, kind |-> "error", ensured |-> o ]
      ELSE LET m == _write_bootstrap_marker(resolved, touchOk) IN
        [ fs |-> m.fs, kind |-> IF m.raised THEN "error" ELSE "path", ensured |-> o ]

\* one call of validate_model_store: the call of ensure_model_store it made,
\* require_non_empty as in effect, and what validate_model_store did itself
ValidateCall(s, f, require_non_empty, v) ==
    [ caller |-> "validate", settings |-> s,
      had |-> has_expected(s, f),
      kind |-> v.ensured.kind, fetched |-> v.ensured.fetched,
      marked |-> v.ensured.marked,
      fetch |-> v.ensured.fetch, cause |-> v.ensured.cause,
      require_non_empty |-> require_non_empty, validated |-> v.kind ]

\* model_store.py:51-111: older startup code calls validate_model_store with the
\* settings of the process
ValidateModelStore ==
    /\ Len(calls) < MaxCalls
    /\ \E rne \in OptionalBool, allow_empty \in OptionalBool,
          net \in NetSpace, touchOk \in BOOLEAN :
         LET require_non_empty == require_non_empty_in_effect(rne, allow_empty)
             v == validate_model_store(settings, fs, require_non_empty, net, touchOk)
         IN /\ fs' = v.fs
            /\ calls' = Append(Earlier(calls),
                               ValidateCall(settings, fs, require_non_empty, v))
    /\ UNCHANGED <<settings, api, client, reqs, sent, launcher>>

SpecValidate == Init /\ [][ValidateModelStore]_vars

----------------------------------------------------------------------------
(* The backend launcher (vllm_local_server.py). *)

\* dict.setdefault: the value is set when the key is absent
setdefault(env, key, value) ==
    IF env[key] = None THEN [env EXCEPT ![key] = value] ELSE env

\* vllm_local_server.py:54-57: a copy of os.environ, with the two credential
\* variables set by setdefault when a token is configured
child_env(s, environ) ==
    IF s.hf_token # None /\ s.hf_token # ""
    THEN setdefault(setdefault(environ, "HF_TOKEN", s.hf_token),
                    "HUGGING_FACE_HUB_TOKEN", s.hf_token)
    ELSE environ

\* vllm_local_server.py:13: get_settings() in the launcher process: the store
\* settings of a process, and hf_token as its environment gives it
LauncherSettings(environ) ==
    { [s EXCEPT !.hf_token = hf_token(environ)] : s \in StartSettings }

\* the launcher process after get_settings
InitLauncher ==
    /\ launcher \in [ pc : {"start"}, environ : EnvironSpace, env : {None} ]
    /\ settings \in LauncherSettings(launcher.environ)
    /\ fs \in FsSpace
    /\ api = "init"
    /\ calls = <<>>
    /\ client = NoClient
    /\ reqs = [r \in Reqs |-> IdleReq]
    /\ sent = NoResponse

\* vllm_local_server.py:12-59: ensure_model_store, the check of the artifact
\* directory, then os.execvpe with the command and the environment; an
\* exception of ensure_model_store or a missing directory ends the process
LauncherMain ==
    /\ launcher.pc = "start"
    /\ \E net \in NetSpace, touchOk \in BOOLEAN :
         LET o == ensure_model_store(settings, fs, net, touchOk)
             model_path == resolve_repo_dir(settings, o.fs)
         IN /\ fs' = o.fs
            /\ calls' = Append(Earlier(calls), Call("launcher", settings, fs, o))
            /\ launcher' =
                 IF o.kind = "error" \/ ~model_path.exists
                 THEN [launcher EXCEPT !.pc = "failed"]
                 ELSE [launcher EXCEPT !.pc = "exec",
                                       !.env = child_env(settings, launcher.environ)]
    /\ UNCHANGED <<settings, api, client, reqs, sent>>

SpecLauncher == InitLauncher /\ [][LauncherMain]_vars

----------------------------------------------------------------------------
(* Properties of the startup order and of the store. *)

Responded == sent.response.status # 0

Busy == \E r \in Reqs : reqs[r].pc # "idle"

\* C1: in the API process ensure_model_store has run to completion, without
\* raising, before startup_check is started; a request is handled only when
\* ensure_model_store and startup_check both succeeded; ensure_model_store is
\* called once per process, and not while requests are handled.
C1_StartupOrder ==
    /\ Len(calls) <= 1
    /\ api # "init" => Len(calls) = 1
    /\ api \in {"probing", "serving", "stopped"} => calls[1].kind # "error"
    /\ client.state # "none" => Len(calls) = 1 /\ calls[1].kind # "error"
    /\ api = "serving" => client.state = "ready"
    /\ (Busy \/ Responded) =>
         /\ api = "serving"
         /\ Len(calls) = 1 /\ calls[1].kind # "error"
         /\ client.state = "ready"

\* C1, its case: a request is answered after both startup steps succeeded
C1_Witness ==
    /\ sent.response.status = 200
    /\ Len(calls) = 1 /\ calls[1].kind = "path"
    /\ client.state = "ready"

\* C2 as stated: whenever the service accepts requests the expected artifacts
\* are in the artifact directory, for every combination of the three flags.
C2_ArtifactsWheneverServing ==
    api = "serving" => has_expected(settings, fs)

\* C2, amended: whenever the service accepts requests and at least one of
\* require-local, auto-download and force-refresh is set, the expected
\* artifacts are in the artifact directory.
C2_ArtifactsWhenBootstrapped ==
    (api = "serving" /\ should_bootstrap(settings))
        => has_expected(settings, fs)

\* C2, its case: the service accepts requests after a fetch brought the artifacts
C2_Witness ==
    /\ api = "serving"
    /\ should_bootstrap(settings)
    /\ calls[1].fetched /\ ~calls[1].had
    /\ has_expected(settings, fs)

SameSettingsNoForce(i) ==
    /\ calls[i + 1].settings = calls[i].settings
    /\ ~calls[i].settings.model_force_download

C4_ForceAlwaysFetches ==
    \A i \in 1 .. Len(calls) :
        calls[i].settings.model_force_download => calls[i].fetched

\* C4, its case: the artifacts were there, force-refresh was set, the call
\* fetched; once from the bootstrap command, once with auto-download unset
C4_Witness ==
    /\ Len(calls) = 2
    /\ \A i \in 1 .. 2 :
         /\ calls[i].settings.model_force_download
         /\ calls[i].had /\ calls[i].fetched
    /\ calls[1].caller = "bootstrap"
    /\ ~calls[2].settings.auto_download_model_store

----------------------------------------------------------------------------
(* Properties of the OCR endpoint. *)

\* the response answers an upload: the form held the file part
OfUpload == Responded /\ sent.event # "no_file"

Is(status, error_code) ==
    sent.response.status = status /\ sent.response.error_code = error_code

\* C5 as stated: an upload longer than the ceiling is answered 413
\* file_too_large whatever its declared content type.
C5_TooLargeAlways413 ==
    (OfUpload /\ sent.len > max_upload_bytes(settings)) => Is(413, "file_too_large")

\* C5, amended: an upload of an allowed content type whose body is read, is
\* not empty and is longer than the ceiling is answered 413 file_too_large,
\* and the backend is not called for it.
C5_TooLargeAllowedType413 ==
    ( /\ OfUpload
      /\ sent.content_type \in ALLOWED_CONTENT_TYPES
      /\ sent.len > 0
      /\ sent.len > max_upload_bytes(settings) )
        => Is(413, "file_too_large") /\ sent.transcribes = 0

\* C5, its case: an allowed upload one byte over the default ceiling
C5_Witness ==
    /\ Is(413, "file_too_large")
    /\ sent.content_type \in ALLOWED_CONTENT_TYPES
    /\ settings.max_upload_megabytes = DefaultUploadMegabytes
    /\ sent.len = max_upload_bytes(settings) + 1

\* C6: an upload whose declared content type is not in the allow-list, an
\* absent one included, is answered 415 unsupported_media_type, and the
\* handler has neither read the body nor called the gateway; no request of
\* such an upload is in flight past the gate.
C6_DisallowedType415 ==
    /\ (OfUpload /\ sent.content_type \notin ALLOWED_CONTENT_TYPES)
         => /\ Is(415, "unsupported_media_type")
            /\ ~sent.read
            /\ sent.transcribes = 0
    /\ \A r \in Reqs :
         reqs[r].pc # "idle" => reqs[r].content_type \in ALLOWED_CONTENT_TYPES

\* C6, its case: an upload without declared content type, longer than nothing
C6_Witness ==
    /\ Is(415, "unsupported_media_type")
    /\ sent.content_type = None
    /\ sent.len > 0

\* C7: when the deadline of the bounded invoke fires, or the gateway reports
\* a timeout, the response is 408 inference_timeout (not 500, not 503).
C7_Timeout408 ==
    sent.event \in {"deadline", "vllm_timeout"}
        => /\ Is(408, "inference_timeout")
           /\ sent.response.status \notin {500, 503}

\* C7, its case: the gateway reported the timeout
C7_Witness == sent.event = "vllm_timeout" /\ Is(408, "inference_timeout")

\* the id the middleware gave the request
ExpectedRequestId ==
    IF sent.hdr # None THEN FromHeader(sent.hdr) ELSE uuid4(sent.slot, 1)

\* C8: the request_id of every response body, of the success and of every
\* error response, is the inbound x-request-id when there is one and
\* otherwise the one identifier generated for the request by the middleware.
C8_BodyRequestId ==
    Responded =>
        /\ sent.response.status \in {200, 400, 408, 413, 415, 422, 500, 503}
        /\ sent.response.body_request_id = ExpectedRequestId
        /\ sent.response.body_request_id = sent.request_id

\* C8, its case: an error response of a request without the header
C8_Witness ==
    /\ Is(500, "internal_server_error")
    /\ sent.hdr = None
    /\ sent.response.body_request_id = uuid4(sent.slot, 1)

\* C9: every response, the 500 of the generic exception handler included,
\* carries an x-request-id header equal to the request_id of its body.
C9_HeaderOnEveryResponse ==
    Responded => sent.response.header_request_id = sent.response.body_request_id

UnanticipatedEvents == {"read_raises", "encode_raises", "exception", "bad_reply"}

\* C10 as stated: an exception that is none of the anticipated conditions is
\* answered 503 inference_failure, at the read, the encode, the invoke and
\* the response-shaping step alike.
C10_AnyException503 ==
    sent.event \in UnanticipatedEvents => Is(503, "inference_failure")

\* C10, amended: an exception that is none of the anticipated conditions is
\* answered 503 inference_failure when it is raised by the backend call of the
\* invoke step, and 500 internal_server_error when it is raised at the read,
\* the encode or the response-shaping step.
C10_InvokeException503 ==
    /\ sent.event = "exception" => Is(503, "inference_failure")
    /\ sent.event \in {"read_raises", "encode_raises", "bad_reply"}
         => Is(500, "internal_server_error")

\* C10, its case: the backend call raised an exception of no anticipated kind
C10_Witness == sent.event = "exception" /\ Is(503, "inference_failure")

\* the (status, error_code) pairs of the taxonomy, and the success
Taxonomy ==
    { <<200, None>>,
      <<415, "unsupported_media_type">>, <<400, "empty_file">>,
      <<413, "file_too_large">>, <<408, "inference_timeout">>,
      <<503, "inference_failure">>, <<422, "validation_error">>,
      <<500, "internal_server_error">> }

\* a response to the request of slot r was sent by the latest step
Answered(r) == Responded /\ sent.slot = r

\* C11: a request the endpoint took on ends with one structured response, when
\* the backend call returns, fails or is cut off by the deadline: every
\* response is 200 or an error whose (status, error_code) is in the taxonomy;
\* the step that ends a request sends its response, and no response is sent
\* for a request that stays in flight; no step of a request takes the process
\* out of serving; and a request in flight ends: its slot is idle again later.
C11_OneStructuredResponse ==
    /\ [](Responded => <<sent.response.status, sent.response.error_code>> \in Taxonomy)
    /\ [][ \A r \in Reqs :
             /\ (reqs[r].pc # "idle" /\ reqs'[r].pc = "idle") => Answered(r)'
             /\ (Answered(r)' /\ sent' # sent) => reqs'[r].pc = "idle"
             /\ reqs'[r] # reqs[r] => (api = "serving" /\ api' = "serving") ]_vars
    /\ [][ Responded' => (api = "serving" /\ api' = "serving") ]_vars
    /\ \A r \in Reqs : []<>(reqs[r].pc = "idle")

\* C11, its case: a request is answered 503 after its backend call failed while
\* another request is in flight, and the process keeps serving
C11_Witness ==
    /\ sent.event = "vllm_error" /\ Is(503, "inference_failure")
    /\ Busy
    /\ api = "serving"

----------------------------------------------------------------------------
(* Properties of the paths of ensure_model_store. *)

\* require-local alone: download disabled
RequireLocalOnly(s) ==
    /\ s.require_local_model_store
    /\ ~s.auto_download_model_store
    /\ ~s.model_force_download

\* C12: when the expected artifacts are absent, require-local is set and
\* neither auto-download nor force-refresh is, ensure_model_store raises,
\* calls no fetch and no marker write; in the API process lifespan then ends
\* in failure: no client is created, no request is taken on or answered.
C12_MissingAndDisabledFails ==
    \A i \in 1 .. Len(calls) :
        (~calls[i].had /\ RequireLocalOnly(calls[i].settings))
            => /\ calls[i].kind = "error"
               /\ ~calls[i].fetched
               /\ ~calls[i].marked
               /\ calls[i].caller = "api"
                    => /\ api = "failed"
                       /\ client.state = "none"
                       /\ ~Busy /\ ~Responded

\* C12, its case: the API process started on a store whose artifact directory
\* holds no file, with download disabled, and failed
C12_Witness ==
    /\ Len(calls) = 1
    /\ ~calls[1].had /\ RequireLocalOnly(calls[1].settings)
    /\ calls[1].kind = "error"
    /\ fs.repo /\ fs.files = {}
    /\ api = "failed"

\* the latest call of ensure_model_store
LastCall == calls[Len(calls)]

\* the step is a call of ensure_model_store
Called == Len(calls') = Len(calls) + 1

\* none of require-local, auto-download and force-refresh is set
NoFlags(s) ==
    /\ ~s.require_local_model_store
    /\ ~s.auto_download_model_store
    /\ ~s.model_force_download

\* C13: when none of require-local, auto-download and force-refresh is set,
\* ensure_model_store returns none, calls no fetch and no marker write, and
\* leaves the filesystem as it was: no store root is created.
C13_NoFlagsNoOp ==
    [][ (Called /\ NoFlags(LastCall'.settings))
          => /\ LastCall'.kind = "none"
             /\ ~LastCall'.fetched
             /\ ~LastCall'.marked
             /\ fs' = fs ]_vars

\* C13, its case: a call without flags on a store whose root does not exist
C13_Witness ==
    /\ Len(calls) = 1
    /\ NoFlags(calls[1].settings)
    /\ calls[1].kind = "none"
    /\ ~fs.root

\* the expected artifacts as the claims word them: a file matching the pattern
\* when one is configured, any file under the artifact directory otherwise
ExpectedPresent(f, s) ==
    LET repo_dir == resolve_repo_dir(s, f) IN
      /\ repo_dir.exists
      /\ IF s.model_filename = None THEN repo_dir.files # {}
         ELSE s.model_filename \in repo_dir.files

\* the call marked the store, returned the path, called no fetch and left the
\* directories and every file other than the marker as they were
CacheHitTaken ==
    /\ LastCall'.kind = "path"
    /\ ~LastCall'.fetched
    /\ LastCall'.marked
    /\ fs'.repo = fs.repo /\ fs'.files = fs.files
    /\ fs.marker => fs'.marker

\* C14 as stated: when the expected artifacts are there and force-refresh is
\* not set, ensure_model_store marks the store, returns the store path, calls
\* no fetch and leaves the artifact directory as it was, whatever require-local
\* and auto-download are.
C14_CacheHitWheneverPresent ==
    [][ (Called /\ LastCall'.had /\ ~LastCall'.settings.model_force_download)
          => CacheHitTaken ]_vars

\* C14, amended: when the expected artifacts are there (any file under the
\* artifact directory without a filename pattern, a file matching the pattern
\* with one), force-refresh is not set and require-local or auto-download is,
\* ensure_model_store calls the marker write, returns the store path, calls no
\* fetch and leaves the artifact directory as it was, the marker aside.
C14_CacheHitNoFetch ==
    [][ Called =>
          /\ LastCall'.had = ExpectedPresent(fs, LastCall'.settings)
          /\ ( /\ LastCall'.had
               /\ ~LastCall'.settings.model_force_download
               /\ should_bootstrap(LastCall'.settings) )
               => CacheHitTaken ]_vars

\* C14, its case: a cache hit on the configured filename pattern, with
\* auto-download set: the marker is there, no file was added
C14_Witness ==
    /\ Len(calls) = 1
    /\ calls[1].had
    /\ calls[1].settings.model_filename = "model.bin"
    /\ calls[1].settings.auto_download_model_store
    /\ ~calls[1].settings.model_force_download
    /\ calls[1].kind = "path" /\ ~calls[1].fetched
    /\ fs.marker /\ fs.files = {"model.bin"}

\* C15: when the snapshot fetch returns without error and the expected
\* artifacts are still absent, ensure_model_store raises: it returns no path
\* and does not call the marker write, and the marker is as it was.
C15_FetchedNothingFails ==
    [][ ( /\ Called
          /\ LastCall'.fetch = "returns"
          /\ ~ExpectedPresent(fs', LastCall'.settings) )
          => /\ LastCall'.kind = "error"
             /\ ~LastCall'.marked
             /\ fs'.marker = fs.marker ]_vars

\* C15, its case: the fetch returned having brought a file that does not
\* match the configured pattern
C15_Witness ==
    /\ Len(calls) = 1
    /\ calls[1].fetch = "returns"
    /\ calls[1].settings.model_filename = "model.bin"
    /\ fs.files = {"README.md"}
    /\ calls[1].kind = "error"
    /\ ~fs.marker

\* the fetch failed: snapshot_download raised, or the registry client is missing
FetchFailed(c) == c.fetch \in {"raises", "import_error"}

\* C16: when the snapshot fetch fails, ensure_model_store raises an error
\* raised from the original exception; it returns neither a path nor none,
\* and does not call the marker write: the marker is as it was.
C16_FetchFailureNotSwallowed ==
    [][ (Called /\ FetchFailed(LastCall'))
          => /\ LastCall'.kind = "error"
             /\ LastCall'.cause =
                  (IF LastCall'.fetch = "import_error" THEN "ImportError" ELSE "Exception")
             /\ ~LastCall'.marked
             /\ fs'.marker = fs.marker ]_vars

\* C16, its case: snapshot_download raised after it had written the expected
\* file, and the call raised all the same
C16_Witness ==
    /\ Len(calls) = 1
    /\ calls[1].fetch = "raises"
    /\ ~calls[1].had
    /\ ExpectedPresent(fs, calls[1].settings)
    /\ calls[1].kind = "error" /\ calls[1].cause = "Exception"

\* the settings a call on this store can be given: the process's, the
\* bootstrap command's
CallSettings == {settings} \cup { bootstrap_settings(settings, force) : force \in BOOLEAN }

\* the store with the presence of the readiness marker flipped
MarkerFlipped(f) == [f EXCEPT !.marker = ~f.marker]

\* C17: for every configuration, on two stores a first call is made on that
\* differ only in the presence of the readiness marker, ensure_model_store ends
\* the same way (the same return value or an error), decides the same on the
\* fetch, and leaves the same files.
C17_MarkerNotAuthoritative ==
    (calls = <<>> /\ fs.root) =>
        \A s \in CallSettings, net \in NetSpace, touchOk \in BOOLEAN :
            LET a == ensure_model_store(s, fs, net, touchOk)
                b == ensure_model_store(s, MarkerFlipped(fs), net, touchOk)
            IN /\ a.kind = b.kind
               /\ a.fetched = b.fetched
               /\ a.fetch = b.fetch
               /\ a.fs.repo = b.fs.repo /\ a.fs.files = b.fs.files

\* C17, its case: a call on a store that holds the marker and no expected
\* artifact went to the fetch, which failed
C17_Witness ==
    /\ Len(calls) = 1
    /\ fs.marker
    /\ ~calls[1].had
    /\ calls[1].fetched /\ FetchFailed(calls[1])
    /\ calls[1].kind = "error"

\* C18: a marker write that fails is not fatal: every call that reached the
\* marker write, on the cache-hit path or after the fetch, returned the store
\* path; and on every store a first call is made on, ensure_model_store ends
\* the same way whether the write succeeds or not.
C18_MarkerWriteNotFatal ==
    /\ \A i \in 1 .. Len(calls) : calls[i].marked => calls[i].kind = "path"
    /\ calls = <<>> =>
       \A s \in CallSettings, net \in NetSpace :
         LET a == ensure_model_store(s, fs, net, TRUE)
             b == ensure_model_store(s, fs, net, FALSE)
         IN /\ a.kind = b.kind
            /\ a.marked = b.marked
            /\ a.marked => b.kind = "path"
            /\ a.fs.files = b.fs.files

\* C18, its case: the marker write failed after a fetch and failed again on
\* the cache hit of the next call; both calls returned the path
C18_Witness ==
    /\ Len(calls) = 2
    /\ calls[1].fetched /\ calls[1].marked /\ calls[1].kind = "path"
    /\ ~calls[2].fetched /\ calls[2].marked /\ calls[2].kind = "path"
    /\ ~fs.marker

----------------------------------------------------------------------------
(* Properties of requests in flight together, and of the configuration. *)

\* the (status, error_code) of a response as its own request determines it: the
\* form, the declared type, the body read and the end of its own backend call
OwnOutcome(x) ==
    CASE x.event = "no_file" -> <<422, "validation_error">>
      [] x.event = "disallowed" -> <<415, "unsupported_media_type">>
      [] x.event = "gate" /\ x.len = 0 -> <<400, "empty_file">>
      [] x.event = "gate" /\ x.len # 0 -> <<413, "file_too_large">>
      [] x.event \in {"read_raises", "encode_raises", "bad_reply"}
           -> <<500, "internal_server_error">>
      [] x.event \in {"deadline", "vllm_timeout"} -> <<408, "inference_timeout">>
      [] x.event \in {"vllm_error", "exception"} -> <<503, "inference_failure">>
      [] x.event = "text" -> <<200, None>>

\* C19: with several requests in flight, the expiry of the deadline of one is
\* answered 408 to that request; the step that answers a request leaves every
\* other request where it is; every response is the one its own upload and its
\* own backend reply determine; and a step of a request changes nothing the
\* requests share: settings, client, store, position of the process.
C19_DeadlineIsolated ==
    /\ [](Responded =>
            <<sent.response.status, sent.response.error_code>> = OwnOutcome(sent))
    /\ [][ \A r \in Reqs :
             /\ Answered(r)' => \A q \in Reqs \ {r} : reqs'[q] = reqs[q]
             /\ reqs'[r] # reqs[r] => \A q \in Reqs \ {r} : reqs'[q] = reqs[q]
             /\ reqs'[r] # reqs[r] => UNCHANGED <<settings, client, fs, calls, api>> ]_vars

\* C19, its case: the deadline of the request of slot 1 expired and was
\* answered 408 while the request of slot 2 stays at its backend call
C19_Witness ==
    /\ sent.event = "deadline" /\ Is(408, "inference_timeout")
    /\ sent.slot = 1
    /\ reqs[2].pc = "invoke"

\* C20: whenever a Settings object was constructed, the inference timeout, the
\* per-call backend timeout and the startup timeout are positive and the
\* backend port is in 1..65535: every other value failed the construction.
C20_OutOfRangeRejected ==
    settings # Unset =>
        /\ settings.inference_timeout_seconds > 0
        /\ settings.vllm_timeout_seconds > 0
        /\ settings.vllm_startup_timeout_seconds > 0
        /\ settings.vllm_port \in 1 .. 65535

----------------------------------------------------------------------------
(* Properties of the gate order, of validate_model_store, of the store after a
   failed fetch, of the client and of the backend launcher. *)

\* C21: the gates are evaluated in the order content type, read, non-empty,
\* size, and the first that fails decides: a disallowed type is answered 415
\* with the body unread; an empty body of an allowed type is answered 400
\* under every ceiling; 413 is answered only to a read, non-empty body longer
\* than the ceiling, so a body of exactly the ceiling length passes; and the
\* gateway is called at most once, only past the three gates, never for a
\* request answered 415, 400 or 413.
C21_GateOrder ==
    /\ (OfUpload /\ sent.content_type \notin ALLOWED_CONTENT_TYPES)
         => Is(415, "unsupported_media_type") /\ ~sent.read
    /\ (OfUpload /\ sent.content_type \in ALLOWED_CONTENT_TYPES /\ sent.len = 0)
         => Is(400, "empty_file") /\ sent.read
    /\ Is(413, "file_too_large")
         => /\ sent.content_type \in ALLOWED_CONTENT_TYPES
            /\ sent.read
            /\ sent.len > 0 /\ sent.len > max_upload_bytes(settings)
    /\ (sent.event = "accepted" /\ sent.len = max_upload_bytes(settings))
         => reqs[sent.slot].pc = "invoke"
    /\ sent.transcribes \in {0, 1}
    /\ sent.response.status \in {415, 400, 413} => sent.transcribes = 0
    /\ \A r \in Reqs :
         reqs[r].pc # "idle" =>
            /\ reqs[r].transcribes = (IF reqs[r].pc = "invoke" THEN 1 ELSE 0)
            /\ reqs[r].pc = "invoke" =>
                  reqs[r].read /\ reqs[r].content_type \in ALLOWED_CONTENT_TYPES

\* C21, its case: under a negative ceiling an empty body of an allowed type,
\* which is longer than the ceiling too, is answered 400
C21_Witness ==
    /\ Is(400, "empty_file")
    /\ sent.content_type \in ALLOWED_CONTENT_TYPES
    /\ sent.len = 0
    /\ sent.len > max_upload_bytes(settings)

\* C22: a call of validate_model_store with require_non_empty in effect that
\* returns a path leaves a store that holds a model file, whatever the calls
\* before it did: the marker alone does not count as content.
C22_MarkerIsNotContent ==
    (/\ Len(calls) >= 1
     /\ calls[Len(calls)].caller = "validate"
     /\ calls[Len(calls)].require_non_empty
     /\ calls[Len(calls)].validated = "path")
    => fs.files # {}

\* C23: when the fetch of the latest call raised, a call with the same
\* configuration, auto-download set and force-refresh unset, returns the path
\* only after a fetch that returned in that call: it takes no cache hit on
\* what the failed fetch left.
C23_NoCacheHitOnLeftovers ==
    [][ (/\ Len(calls) >= 1
         /\ Called
         /\ LastCall.fetch = "raises"
         /\ LastCall'.settings = LastCall.settings
         /\ LastCall'.settings.auto_download_model_store
         /\ ~LastCall'.settings.model_force_download
         /\ LastCall'.kind = "path")
          => LastCall'.fetch = "returns" ]_vars

\* C24: when ensure_model_store returned the path, on the cache hit or after
\* a fetch, the store root exists and the expected artifacts are under the
\* artifact directory of the call's repository id.
C24_PathImpliesArtifacts ==
    (Len(calls) >= 1 /\ calls[Len(calls)].kind = "path")
    => /\ fs.root
       /\ ExpectedPresent(fs, calls[Len(calls)].settings)

\* C24, its case: a path returned after a fetch, under a filename pattern
C24_Witness ==
    /\ Len(calls) >= 1
    /\ calls[Len(calls)].kind = "path"
    /\ calls[Len(calls)].fetched
    /\ ~calls[Len(calls)].had
    /\ calls[Len(calls)].settings.model_filename # None

\* C25: ensure_model_store returns none exactly when none of the three flags
\* is set: with a flag set a call ends with the path or with an error, so the
\* return of none for "download disabled and require-local unset" is not
\* reached.
C25_NoneIffNoFlags ==
    \A i \in 1 .. Len(calls) :
        (calls[i].kind = "none") <=> NoFlags(calls[i].settings)

\* C25, its case: require-local unset, auto-download set, the artifacts
\* missing: the call ends with an error
C25_Witness ==
    /\ Len(calls) = 1
    /\ ~calls[1].settings.require_local_model_store
    /\ calls[1].settings.auto_download_model_store
    /\ ~calls[1].had
    /\ calls[1].kind = "error"

\* C26: one VLLMClient is created per process and it is closed exactly once:
\* when startup_check failed it is closed by the time lifespan has raised, and
\* no request was taken on; when startup_check succeeded it stays open while
\* requests are served, every request in flight uses that one client, and it
\* is closed at shutdown.
C26_ClientClosedOnce ==
    /\ client.created <= 1
    /\ client.closes <= client.created
    /\ client.created = 0 <=> client.state = "none"
    /\ api = "failed" =>
         /\ client.closes = client.created
         /\ \A r \in Reqs : reqs[r].pc = "idle"
         /\ ~Responded
    /\ api \in {"probing", "serving"} => client.created = 1 /\ client.closes = 0
    /\ api = "stopped" => client.created = 1 /\ client.closes = 1
    /\ client.closes = 1 <=> client.state = "closed"
    /\ (Busy \/ Responded) => client.state = "ready" /\ client.closes = 0

\* C26, its case: startup_check failed and the client that was created is
\* closed
C26_Witness ==
    /\ api = "failed"
    /\ client.created = 1
    /\ client.state = "closed"
    /\ client.closes = 1

\* C27: the launcher hands over only after ensure_model_store returned without
\* error and with the artifact directory in place, and when a token is
\* configured the HF_TOKEN and HUGGING_FACE_HUB_TOKEN of the child environment
\* are that token, also when the parent environment defines them.
C27_TokenOverridesParent ==
    launcher.pc = "exec" =>
        /\ Len(calls) = 1 /\ calls[1].kind # "error"
        /\ resolve_repo_dir(settings, fs).exists
        /\ settings.hf_token # None =>
              /\ launcher.env.HF_TOKEN = settings.hf_token
              /\ launcher.env.HUGGING_FACE_HUB_TOKEN = settings.hf_token

====
